---- MODULE Spec2Model ----
(***************************************************************************)
(* Model of the dynamic loader of Scrapping/scraper/load_data.py: the      *)
(* analysed metadata, the DDL sequence, the single psycopg2 connection     *)
(* with its transaction state, the COPY bulk path and the row-by-row       *)
(* INSERT ... ON CONFLICT DO NOTHING fallback, run by main().              *)
(***************************************************************************)
EXTENDS Integers, Sequences, FiniteSets, TLC

\* ------------------------------------------------------------------ bounds
\* Size of one environment: analysed tables + rows in their files + faults.
MaxInput == 4
\* Executions of the script over the same files and store.
MaxRuns == 2
\* Length of the raw column names given to the sanitizer.
MaxNameLen == 3
\* Columns of the sample DataFrames of one analysis, all tables together.
MaxColumns == 3
\* Cells of the column given to the type inference.
MaxCells == 5
\* Files in the data directory of a sharded table.
MaxFiles == 2
\* Rows of one snapshot file.
MaxSnapshotRows == 2
\* Bets placed by the user of the betting service.
MaxBets == 2
\* Largest stake of a bet; payouts go one unit further.
MaxAmount == 2
\* Largest balance of the user when the first bet is placed.
MaxCredits == 1
\* cancel_bet and settle_bet calls in progress at one time.
MaxRequests == 2

\* ----------------------------------------------------------- column names
\* The column names the analyzer, the detector and the generator spell out,
\* and the other sanitized headers of the scraped files.
game_id == <<"g", "a", "m", "e", "_", "i", "d">>

fecha == <<"f", "e", "c", "h", "a">>

home_team == <<"h", "o", "m", "e", "_", "t", "e", "a", "m">>

away_team == <<"a", "w", "a", "y", "_", "t", "e", "a", "m">>

team_name == <<"t", "e", "a", "m", "_", "n", "a", "m", "e">>

season == <<"s", "e", "a", "s", "o", "n">>

conference == <<"c", "o", "n", "f", "e", "r", "e", "n", "c", "e">>

team_abbrev == <<"t", "e", "a", "m", "_", "a", "b", "b", "r", "e", "v">>

commence_time == <<"c", "o", "m", "m", "e", "n", "c", "e", "_", "t", "i", "m", "e">>

bookmakers == <<"b", "o", "o", "k", "m", "a", "k", "e", "r", "s">>

wins == <<"w", "i", "n", "s">>

team == <<"t", "e", "a", "m">>

player == <<"p", "l", "a", "y", "e", "r">>

status == <<"s", "t", "a", "t", "u", "s">>

Team == <<"T", "e", "a", "m">>

Player == <<"P", "l", "a", "y", "e", "r">>

date == <<"d", "a", "t", "e">>

game_date == <<"g", "a", "m", "e", "_", "d", "a", "t", "e">>

Fecha == <<"F", "e", "c", "h", "a">>

Team_Name == <<"T", "e", "a", "m", " ", "N", "a", "m", "e">>

Game_ID == <<"G", "a", "m", "e", " ", "I", "D">>

\* None as a primary key: no name.
NoKey == <<>>

\* ---------------------------------------------------------- configuration
\* Order in which analyze_all_files fills the metadata dict.
AnalysisOrder == <<"games", "standings", "team_stats", "injuries", "odds">>

TableNames == {AnalysisOrder[i] : i \in 1..Len(AnalysisOrder)}

\* The 'primary_key' entry each _analyze_* method writes.
PrimaryKey(t) == IF t \in {"games", "odds"} THEN game_id ELSE NoKey

HasPK(t) == PrimaryKey(t) # NoKey

\* The 'indexes' entry each _analyze_* method writes.
IndexHints(t) ==
  CASE t = "games" -> <<fecha, home_team, away_team>>
    [] t = "standings" -> <<team_name, season, conference>>
    [] t = "team_stats" -> <<team_name, team_abbrev, season>>
    [] t = "injuries" -> <<Team, Player>>
    [] t = "odds" -> <<home_team, away_team, commence_time>>

\* Keys of the 'columns' dict of each table: the sanitized names
\* _infer_columns produces for the files the scrapers write.
Columns(t) ==
  CASE t = "games" -> {game_id, fecha, home_team, away_team}
    [] t = "standings" -> {team_name, season, conference, wins}
    [] t = "team_stats" -> {team_name, season, team_abbrev}
    [] t = "injuries" -> {team, player, status}
    [] t = "odds" -> {game_id, home_team, away_team, commence_time, bookmakers}

\* The metadata entry of table t for those files.
TableMeta(t) ==
  [columns |-> [c \in Columns(t) |-> [nullable |-> FALSE, original_name |-> c]],
   primary_key |-> PrimaryKey(t),
   indexes |-> IndexHints(t)]

\* The metadata dict of the analysed tables meta.
MetadataOf(meta) == [t \in {meta[i] : i \in 1..Len(meta)} |-> TableMeta(t)]

\* The table-role pairs _detect_by_naming_convention is written for:
\* <<from_table, to_table>>.
RolePairs == {<<"standings", "team_stats">>, <<"injuries", "team_stats">>}

\* A row of a cleaned DataFrame: its key value, or Malformed for a row the
\* store refuses on its own (wrong type, NULL in a NOT NULL column, too long).
Malformed == 0

\* Keys are numbered in the order of their first appearance in a frame.
Keys == 1..(MaxInput - 1)

RowValues == {Malformed} \cup Keys

\* ------------------------------------------------------------- sequences
RECURSIVE SelectTables(_, _)
\* The tables of order that are in present, in the order of order.
SelectTables(order, present) ==
  IF order = <<>> THEN <<>>
  ELSE IF Head(order) \in present
       THEN <<Head(order)>> \o SelectTables(Tail(order), present)
       ELSE SelectTables(Tail(order), present)

Range(s) == {s[i] : i \in 1..Len(s)}

\* ------------------------------------------------------- name sanitizer
\* A name is the sequence of its characters.
\* The characters str.strip() removes.
Whitespace == {" ", "\t"}

RECURSIVE LStrip(_)
LStrip(s) == IF s # <<>> /\ Head(s) \in Whitespace THEN LStrip(Tail(s)) ELSE s

RECURSIVE RStrip(_)
RStrip(s) ==
  IF s # <<>> /\ s[Len(s)] \in Whitespace THEN RStrip(SubSeq(s, 1, Len(s) - 1)) ELSE s

\* col.strip()
Strip(s) == RStrip(LStrip(s))

RECURSIVE Replace(_, _, _)
\* str.replace(old, new) for a one-character old.
Replace(s, old, new) ==
  IF s = <<>> THEN <<>>
  ELSE (IF Head(s) = old THEN new ELSE <<Head(s)>>) \o Replace(Tail(s), old, new)

\* The characters for which str.isdigit() holds.
Digits == {"0", "1", "2", "3", "4", "5", "6", "7", "8", "9"}

\* str.lower(), character by character.
LowerOf ==
  ("A" :> "a") @@ ("B" :> "b") @@ ("C" :> "c") @@ ("D" :> "d") @@ ("E" :> "e") @@ ("F" :> "f") @@ ("G" :> "g") @@ ("H" :> "h") @@ ("I" :> "i") @@ ("J" :> "j") @@ ("K" :> "k") @@ ("L" :> "l") @@ ("M" :> "m")
  @@ ("N" :> "n") @@ ("O" :> "o") @@ ("P" :> "p") @@ ("Q" :> "q") @@ ("R" :> "r") @@ ("S" :> "s") @@ ("T" :> "t") @@ ("U" :> "u") @@ ("V" :> "v") @@ ("W" :> "w") @@ ("X" :> "x") @@ ("Y" :> "y") @@ ("Z" :> "z")

Lower(s) == [i \in 1..Len(s) |-> IF s[i] \in DOMAIN LowerOf THEN LowerOf[s[i]] ELSE s[i]]

\* The special_cases dict of _sanitize_column_name.
special_cases ==
  (<<"3", "P", "%">> :> <<"t", "h", "r", "e", "e", "_", "p", "o", "i", "n", "t", "_", "p", "e", "r", "c", "e", "n", "t">>)
  @@ (<<"3", "P">> :> <<"t", "h", "r", "e", "e", "_", "p", "o", "i", "n", "t", "e", "r", "s">>)
  @@ (<<"F", "G", "%">> :> <<"f", "i", "e", "l", "d", "_", "g", "o", "a", "l", "_", "p", "e", "r", "c", "e", "n", "t">>)
  @@ (<<"F", "T", "%">> :> <<"f", "r", "e", "e", "_", "t", "h", "r", "o", "w", "_", "p", "e", "r", "c", "e", "n", "t">>)
  @@ (<<"W", "i", "n", "%">> :> <<"w", "i", "n", "_", "p", "e", "r", "c", "e", "n", "t">>)
  @@ (<<"2", "P", "%">> :> <<"t", "w", "o", "_", "p", "o", "i", "n", "t", "_", "p", "e", "r", "c", "e", "n", "t">>)
  @@ (<<"3", "P", "A">> :> <<"t", "h", "r", "e", "e", "_", "p", "o", "i", "n", "t", "_", "a", "t", "t", "e", "m", "p", "t", "s">>)
  @@ (<<"F", "G", "A">> :> <<"f", "i", "e", "l", "d", "_", "g", "o", "a", "l", "_", "a", "t", "t", "e", "m", "p", "t", "s">>)
  @@ (<<"F", "T", "A">> :> <<"f", "r", "e", "e", "_", "t", "h", "r", "o", "w", "_", "a", "t", "t", "e", "m", "p", "t", "s">>)

\* The reserved_words list of _sanitize_column_name.
reserved_words ==
  {<<"t", "o">>,
   <<"f", "r", "o", "m">>,
   <<"s", "e", "l", "e", "c", "t">>,
   <<"w", "h", "e", "r", "e">>,
   <<"o", "r", "d", "e", "r">>,
   <<"g", "r", "o", "u", "p">>,
   <<"b", "y">>,
   <<"a", "s">>,
   <<"t", "a", "b", "l", "e">>,
   <<"u", "s", "e", "r">>}

\* col_safe.replace('%', '_percent')
ReplacePercent(s) == Replace(s, "%", <<"_", "p", "e", "r", "c", "e", "n", "t">>)

\* col_safe.replace(' ', '_').replace('-', '_')
ReplaceSeparators(s) == Replace(Replace(s, " ", <<"_">>), "-", <<"_">>)

\* The prefix step without its test: a leading digit stays in front.
KeepLeadingDigit(s) == s

\* if col_safe and col_safe[0].isdigit(): col_safe = 'stat_' + col_safe
PrefixDigit(s) == IF s # <<>> /\ s[1] \in Digits THEN <<"s", "t", "a", "t", "_">> \o s ELSE s

\* The suffix step without its test: every name gets the suffix.
SuffixAlways(s) == s \o <<"_", "s", "t", "a", "t">>

\* if col_safe in reserved_words: col_safe = col_safe + '_stat'
SuffixReserved(s) == IF s \in reserved_words THEN s \o <<"_", "s", "t", "a", "t">> ELSE s

\* The rules of _sanitize_column_name after the special cases, in its order.
RuleChain(s) ==
  SuffixReserved(Lower(PrefixDigit(ReplaceSeparators(ReplacePercent(s)))))

\* A sanitizer that looks the special cases up after the other rules.
SanitizeRulesFirst(col) ==
  LET stripped == RuleChain(Strip(col))
  IN IF stripped \in DOMAIN special_cases THEN special_cases[stripped] ELSE stripped

\* DataAnalyzer._sanitize_column_name
SanitizeColumnName(col) ==
  LET stripped == Strip(col)
  IN IF stripped \in DOMAIN special_cases THEN special_cases[stripped]
     ELSE RuleChain(stripped)

\* -------------------------------------------------------- type inference
\* A cell of a CSV column as pandas reads it: empty, an integer, a number
\* with a fractional part, True/False, or some other text of fewer than 50,
\* fewer than 500, or more characters.
CellKinds == <<"missing", "int", "frac", "bool", "text", "text50", "text500">>

NonMissing(cells) == {i \in 1..Len(cells) : cells[i] # "missing"}

HasMissing(cells) == \E i \in 1..Len(cells) : cells[i] = "missing"

\* The dtype pd.read_csv gives the column: int64 needs every cell to be an
\* integer, a missing value turns integers into float64 and booleans into
\* object; a frame without rows has object columns.
DtypeOf(cells) ==
  IF cells = <<>> THEN "object"
  ELSE IF \A i \in NonMissing(cells) : cells[i] = "int"
       THEN (IF HasMissing(cells) THEN "float64" ELSE "int64")
  ELSE IF \A i \in NonMissing(cells) : cells[i] \in {"int", "frac"} THEN "float64"
  ELSE IF \A i \in 1..Len(cells) : cells[i] = "bool" THEN "bool"
  ELSE "object"

\* pd.to_numeric(df[col].dropna(), errors='coerce').notna(): the cells that
\* parse as numbers.
Numeric(cells) == {i \in NonMissing(cells) : cells[i] \in {"int", "frac"}}

\* (numeric_test % 1 != 0).any(): a parsed value with a fractional part, or a
\* value coerced to NaN (NaN % 1 != 0 holds).
AnyFractional(cells) ==
  \/ \E i \in Numeric(cells) : cells[i] = "frac"
  \/ NonMissing(cells) # Numeric(cells)

\* The branch for text: the longest str(value) against 50 and 500.
TextType(cells) ==
  IF \E i \in NonMissing(cells) : cells[i] = "text500" THEN "TEXT"
  ELSE IF \E i \in NonMissing(cells) : cells[i] = "text50" THEN "VARCHAR(1000)"
  ELSE "VARCHAR(255)"

\* col.lower() in ['fecha', 'date', 'game_date']
IsDateAlias(name) == Lower(name) \in {fecha, date, game_date}

\* _infer_columns, the branch dtype == 'object'; the share of numbers is
\* tested with count > len * 0.8.
ObjectType(name, cells) ==
  IF IsDateAlias(name) THEN "DATE"
  ELSE IF 10 * Cardinality(Numeric(cells)) > 8 * Cardinality(NonMissing(cells))
       THEN (IF AnyFractional(cells) THEN "DOUBLE PRECISION" ELSE "BIGINT")
       ELSE TextType(cells)

\* _infer_columns, the mapping of the pandas dtype to the PostgreSQL type.
PgType(name, cells) ==
  CASE DtypeOf(cells) = "int64" -> "BIGINT"
    [] DtypeOf(cells) = "float64" -> "DOUBLE PRECISION"
    [] DtypeOf(cells) = "bool" -> "BOOLEAN"
    [] DtypeOf(cells) = "object" -> ObjectType(name, cells)

\* _infer_columns, the entry of one column: nullable = df[col].isna().any().
InferColumn(column) ==
  [type |-> PgType(column.name, column.cells),
   nullable |-> HasMissing(column.cells),
   original_name |-> column.name]

\* ----------------------------------------------------- sharded directories
\* A file of a data directory: the stem and the suffix of its name, and
\* whether pd.read_csv raises on it.
\* int(s): optional surrounding whitespace, an optional sign, then digits,
\* single underscores allowed between them.
IntParses(s) ==
  LET t == Strip(s)
      body == IF t # <<>> /\ t[1] \in {"+", "-"} THEN Tail(t) ELSE t
  IN /\ body # <<>>
     /\ \A i \in 1..Len(body) : body[i] \in Digits \cup {"_"}
     /\ body[1] \in Digits /\ body[Len(body)] \in Digits
     /\ \A i \in 1..(Len(body) - 1) : ~(body[i] = "_" /\ body[i + 1] = "_")

\* The positions of the hyphens of a stem.
Hyphens(stem) == {i \in 1..Len(stem) : stem[i] = "-"}

\* _analyze_standings, lines 162-168: '-' in f.stem, two parts, both int().
ValidSeasonStem(stem) ==
  /\ Cardinality(Hyphens(stem)) = 1
  /\ LET h == CHOOSE i \in Hyphens(stem) : TRUE
     IN /\ IntParses(SubSeq(stem, 1, h - 1))
        /\ IntParses(SubSeq(stem, h + 1, Len(stem)))

\* dir.glob('*.csv'), in the order of the listing.
GlobCsv(entries) == {i \in 1..Len(entries) : entries[i].ext = "csv"}

\* The csv_files list of _analyze_standings and of _analyze_team_stats; only
\* standings filters the names.
CsvFiles(t, entries) ==
  {i \in GlobCsv(entries) : t = "standings" => ValidSeasonStem(entries[i].stem)}

\* The files logger.warning is called for.
Warned(t, entries) ==
  {i \in GlobCsv(entries) : t = "standings" /\ ~ValidSeasonStem(entries[i].stem)}

\* pd.read_csv of the sample and of every kept file (lines 179-182, 214 and
\* 226-227), outside any try block: one unreadable file raises.
ReadRaises(entries, kept) == \E i \in kept : entries[i].corrupt

\* -------------------------------------------------------------- analyzer
\* A sample DataFrame is the sequence of its columns: the header and whether
\* a value of the column is missing; no file (or no data) is the empty one.
RECURSIVE InferColumns(_)
\* DataAnalyzer._infer_columns: the columns dict, keyed by sanitized name; a
\* later header with the same sanitized name overwrites the earlier entry.
InferColumns(frame) ==
  IF frame = <<>> THEN <<>>
  ELSE LET last == frame[Len(frame)]
       IN (SanitizeColumnName(last.name)
             :> [nullable |-> last.hasna, original_name |-> last.name])
          @@ InferColumns(SubSeq(frame, 1, Len(frame) - 1))

Headers(frame) == {frame[i].name : i \in 1..Len(frame)}

\* The 'columns' entry each _analyze_* method writes; _analyze_team_stats
\* adds the team_abbrev column taken from the file names.
ColumnsInfo(t, frame) ==
  IF t = "team_stats"
  THEN (team_abbrev :> [nullable |-> FALSE, original_name |-> NoKey]) @@ InferColumns(frame)
  ELSE InferColumns(frame)

\* self.metadata[t] = {...}
AnalyzeTable(t, frame) ==
  [columns |-> ColumnsInfo(t, frame),
   primary_key |-> PrimaryKey(t),
   indexes |-> IndexHints(t)]

\* _analyze_team_stats, line 229: df_temp['team_name'] raises KeyError when
\* the files have no header spelled team_name.
TeamStatsRaises(smp) ==
  smp["team_stats"] # <<>> /\ team_name \notin Headers(smp["team_stats"])

\* The tables analyze_all_files has put into self.metadata when it returns or
\* raises.
AnalysedTables(smp) ==
  {t \in TableNames :
     /\ smp[t] # <<>>
     /\ TeamStatsRaises(smp) => t \in {"games", "standings"}}

\* _clean_dataframe, lines 727-740: the headers of the frame after
\* df.rename(columns=original_to_safe) and the selection of the columns of the
\* table; a header no column names as its original keeps its spelling, and a
\* selected name brings every frame column that carries it.
CleanColumns(frame, columns) ==
  LET renamed == [i \in 1..Len(frame) |->
                    IF \E c \in DOMAIN columns : columns[c].original_name = frame[i].name
                    THEN CHOOSE c \in DOMAIN columns : columns[c].original_name = frame[i].name
                    ELSE frame[i].name]
  IN SelectSeq(renamed, LAMBDA n : n \in DOMAIN columns)

\* -------------------------------------------------------------- detector
Relationship(from, fromCol, to, toCol) ==
  [from_table |-> from, from_column |-> fromCol, to_table |-> to, to_column |-> toCol]

\* A standings rule that does not look at the columns.
StandingsLinkUnchecked(md) ==
  IF "standings" \in DOMAIN md /\ "team_stats" \in DOMAIN md
  THEN <<Relationship("standings", team_name, "team_stats", team_name)>>
  ELSE <<>>

\* _detect_by_naming_convention, first rule: standings.team_name.
StandingsLink(md) ==
  IF /\ "standings" \in DOMAIN md /\ "team_stats" \in DOMAIN md
     /\ team_name \in DOMAIN md["standings"].columns
     /\ team_name \in DOMAIN md["team_stats"].columns
  THEN <<Relationship("standings", team_name, "team_stats", team_name)>>
  ELSE <<>>

\* _detect_by_naming_convention, second rule: injuries.Team, looked up under
\* that spelling among the sanitized keys.
InjuriesLink(md) ==
  IF /\ "injuries" \in DOMAIN md /\ "team_stats" \in DOMAIN md
     /\ Team \in DOMAIN md["injuries"].columns
     /\ team_name \in DOMAIN md["team_stats"].columns
  THEN <<Relationship("injuries", Team, "team_stats", team_name)>>
  ELSE <<>>

\* RelationshipDetector.detect_relationships
DetectByNamingConvention(md) == StandingsLink(md) \o InjuriesLink(md)

\* ------------------------------------------------------------------- DDL
SchemaStmt == [kind |-> "schema", table |-> "", column |-> <<>>]

TableStmt(t) == [kind |-> "table", table |-> t, column |-> <<>>]

IndexStmt(t, c) == [kind |-> "index", table |-> t, column |-> c]

\* DDLGenerator._generate_foreign_key
ForeignKeyStmt(rel) == [kind |-> "foreign_key", table |-> rel.from_table, column |-> rel.from_column]

\* DDLGenerator._determine_table_order
DetermineTableOrder(md) ==
  SelectTables(<<"team_stats", "games", "standings", "injuries", "odds">>, DOMAIN md)

RECURSIVE GenerateIndexesFrom(_, _, _)
\* DDLGenerator._generate_indexes: one statement per hint that is a column.
GenerateIndexesFrom(t, hints, columns) ==
  IF hints = <<>> THEN <<>>
  ELSE (IF Head(hints) \in DOMAIN columns THEN <<IndexStmt(t, Head(hints))>> ELSE <<>>)
       \o GenerateIndexesFrom(t, Tail(hints), columns)

GenerateIndexes(t, table_meta) ==
  GenerateIndexesFrom(t, table_meta.indexes, table_meta.columns)

RECURSIVE CreateTables(_)
CreateTables(order) ==
  IF order = <<>> THEN <<>> ELSE <<TableStmt(Head(order))>> \o CreateTables(Tail(order))

RECURSIVE CreateIndexes(_, _)
CreateIndexes(order, md) ==
  IF order = <<>> THEN <<>>
  ELSE GenerateIndexes(Head(order), md[Head(order)]) \o CreateIndexes(Tail(order), md)

\* A generator that emits the index statements before the tables.
GenerateDDLIndexesFirst(md, rels) ==
  <<SchemaStmt>> \o CreateIndexes(DetermineTableOrder(md), md)
                 \o CreateTables(DetermineTableOrder(md))

\* A generator with the foreign-key loop of step 4 enabled.
GenerateDDLWithForeignKeys(md, rels) ==
  <<SchemaStmt>> \o CreateTables(DetermineTableOrder(md))
                 \o CreateIndexes(DetermineTableOrder(md), md)
                 \o [i \in 1..Len(rels) |-> ForeignKeyStmt(rels[i])]

\* DDLGenerator.generate_ddl: schema, tables, indexes; the foreign keys of
\* the relationships rels are not generated.
GenerateDDL(md, rels) ==
  <<SchemaStmt>> \o CreateTables(DetermineTableOrder(md))
                 \o CreateIndexes(DetermineTableOrder(md), md)

\* ----------------------------------------------------------------- store
EmptyRows == [t \in TableNames |-> [k \in Keys |-> 0]]

EmptyCatalog == [schema |-> FALSE, tables |-> {}, indexes |-> {}, rows |-> EmptyRows]

\* A connection as psycopg2 opens it: no transaction, the view is the
\* durable state.
NewConnection(durable) == [txn |-> "idle", view |-> durable, durable |-> durable]

\* connection.commit(): COMMIT of a failed transaction is a ROLLBACK.
Commit(d) ==
  IF d.txn = "open"
  THEN [d EXCEPT !.durable = d.view, !.txn = "idle"]
  ELSE [d EXCEPT !.view = d.durable, !.txn = "idle"]

\* A rollback that ends the transaction but leaves its writes in place.
RollbackKeepsWrites(d) == [d EXCEPT !.txn = "idle"]

\* connection.rollback()
Rollback(d) == [d EXCEPT !.view = d.durable, !.txn = "idle"]

\* Whether the store refuses a DDL statement: refused by the store itself
\* (rejects), or its schema or table is missing.
DdlRefused(d, stmt, rejects) ==
  \/ d.txn = "aborted"
  \/ stmt \in rejects
  \/ stmt.kind = "table" /\ ~d.view.schema
  \/ stmt.kind = "index" /\ stmt.table \notin d.view.tables

\* cursor.execute(stmt) of a DDL statement (CREATE ... IF NOT EXISTS).
ExecuteStmt(d, stmt, rejects) ==
  IF DdlRefused(d, stmt, rejects)
  THEN [raised |-> TRUE, db |-> [d EXCEPT !.txn = "aborted"]]
  ELSE [raised |-> FALSE,
        db |-> [d EXCEPT
                  !.txn = "open",
                  !.view = CASE stmt.kind = "schema" -> [d.view EXCEPT !.schema = TRUE]
                             [] stmt.kind = "table" ->
                                  [d.view EXCEPT !.tables = @ \cup {stmt.table}]
                             [] stmt.kind = "index" ->
                                  [d.view EXCEPT !.indexes = @ \cup {<<stmt.table, stmt.column>>}]]]

\* Whether the store refuses row r for table t in view v (ON CONFLICT aside).
RowRefused(v, t, r) == t \notin v.tables \/ r = Malformed

KeyConflict(v, t, r) == HasPK(t) /\ r # Malformed /\ v.rows[t][r] > 0

AddRow(v, t, r) == [v EXCEPT !.rows[t][r] = @ + 1]

RECURSIVE CopyRows(_, _, _)
\* The server's side of COPY ... FROM STDIN: rows are written one after the
\* other into the open transaction; the first refused or duplicate row
\* fails the statement and leaves the transaction aborted.
CopyRows(d, t, rows) ==
  IF rows = <<>> THEN [raised |-> FALSE, db |-> d]
  ELSE IF RowRefused(d.view, t, Head(rows)) \/ KeyConflict(d.view, t, Head(rows))
       THEN [raised |-> TRUE, db |-> [d EXCEPT !.txn = "aborted"]]
       ELSE CopyRows([d EXCEPT !.view = AddRow(d.view, t, Head(rows))], t, Tail(rows))

\* cursor.copy_expert(copy_sql, f)
CopyExpert(d, t, rows) ==
  IF d.txn = "aborted" THEN [raised |-> TRUE, db |-> d]
  ELSE CopyRows([d EXCEPT !.txn = "open"], t, rows)

\* cursor.execute(insert_sql, values): INSERT ... ON CONFLICT DO NOTHING.
InsertOnConflict(d, t, r) ==
  IF d.txn = "aborted" THEN [raised |-> TRUE, db |-> d]
  ELSE IF RowRefused(d.view, t, r)
       THEN [raised |-> TRUE, db |-> [d EXCEPT !.txn = "aborted"]]
       ELSE IF KeyConflict(d.view, t, r)
            THEN [raised |-> FALSE, db |-> [d EXCEPT !.txn = "open"]]
            ELSE [raised |-> FALSE,
                  db |-> [d EXCEPT !.txn = "open", !.view = AddRow(d.view, t, r)]]

\* cursor.execute("SELECT COUNT(*) FROM schema.table")
SelectCount(d, t) ==
  IF d.txn = "aborted" THEN [raised |-> TRUE, db |-> d]
  ELSE IF t \notin d.view.tables
       THEN [raised |-> TRUE, db |-> [d EXCEPT !.txn = "aborted"]]
       ELSE [raised |-> FALSE, db |-> [d EXCEPT !.txn = "open"]]

\* ---------------------------------------------------------------- inputs
IsCanonical(s) ==
  \A i \in 1..Len(s) :
    s[i] # Malformed => \A k \in 1..(s[i] - 1) : \E j \in 1..(i - 1) : s[j] = k

\* The cleaned DataFrames of at most n rows; keys are numbered in the order
\* of their first appearance.
Batches(n) ==
  {s \in UNION {[1..m -> RowValues] : m \in 0..n} : IsCanonical(s)}

\* The frames of table t: none without files, else at most n rows.
BatchesOf(t, present, n) == IF t \in present THEN Batches(n) ELSE {<<>>}

ReadFault(t) == [kind |-> "read", table |-> t, column |-> <<>>]

\* The store cannot be reached.
Unreachable == [kind |-> "connect", table |-> "", column |-> <<>>]

\* The operator answers the confirmation prompt with something else than "s".
Declined == [kind |-> "confirm", table |-> "", column |-> <<>>]

\* What the environment can hold against a run: a DDL statement the store
\* rejects, a table whose files cannot be read or cleaned at load time, an
\* unreachable store, an operator who declines.
FaultItems(meta) ==
  Range(GenerateDDL(MetadataOf(meta), <<>>)) \cup {ReadFault(t) : t \in Range(meta)}
    \cup {Unreachable, Declined}

RECURSIVE SetsUpTo(_, _)
SetsUpTo(S, k) ==
  IF k = 0 THEN {{}}
  ELSE LET prev == SetsUpTo(S, k - 1) IN prev \cup {F \cup {x} : F \in prev, x \in S}

\* ----------------------------------------------------------------- state
VARIABLES
  metadata,       \* analysed tables, in the insertion order of the metadata dict
  input,          \* per table, the rows its files hold (after _clean_dataframe)
  faults,         \* the fault items of this environment
  ddl_statements, \* the statements generate_ddl returned to main
  pc,             \* position of main()
  run,            \* number of the current execution of main()
  db,             \* the connection: txn state, its view, the durable store
  ddlIdx,         \* position of execute_ddl in ddl_statements
  tblIdx,         \* position of load_all_data in metadata
  rowIdx,         \* position of _insert_with_skip_duplicates in df
  df,             \* DataFrame of the table being loaded
  success_count,  \* counter of _insert_with_skip_duplicates
  usedFallback,   \* the fallback path ran for the table being loaded
  obs,            \* history of the run, read by the properties only
  col,            \* argument of _sanitize_column_name
  col_safe,       \* its result
  col_twice,      \* the result of sanitizing col_safe again
  samples,        \* per table, the sample DataFrame the analyzer reads
  schemas,        \* DataAnalyzer.metadata: per analysed table, its entry
  relationships,  \* RelationshipDetector.relationships
  series,         \* one column of a sample DataFrame: its header and its cells
  col_info,       \* the entry _infer_columns writes for it
  prev_info,      \* the entry written before a cell of the column was emptied
  files,          \* the files of a table's data directory
  source_files,   \* the files the analyzer keeps for the table
  warnings,       \* the file names logger.warning was called for
  snapshots,      \* per snapshot table, its files' rows in order of st_mtime
  credits,        \* users.credits of the betting user
  bets,           \* the rows of the bets table
  requests,       \* the betting requests in progress, one session each
  ledger          \* history of the betting requests, read by the properties only

vars == <<metadata, input, faults, ddl_statements, pc, run, db, ddlIdx, tblIdx, rowIdx, df,
          success_count, usedFallback, obs, col, col_safe, col_twice, samples, schemas,
          relationships, series, col_info, prev_info, files, source_files, warnings,
          snapshots, credits, bets, requests, ledger>>

sanitizerVars == <<col, col_safe, col_twice>>

analyzerVars == <<samples, schemas, relationships>>

inferenceVars == <<series, col_info, prev_info>>

directoryVars == <<files, source_files, warnings>>

betVars == <<credits, bets, requests, ledger>>

\* The variables of the steps studied on their own.
analysisVars == <<sanitizerVars, analyzerVars, inferenceVars, directoryVars, snapshots,
                  betVars>>

\* The variables of the connection and of the loader.
loaderVars == <<input, faults, run, db, ddlIdx, tblIdx, rowIdx, df, success_count,
                usedFallback, obs>>

env == <<metadata, input, faults>>

table_name == metadata[tblIdx]

ZeroCount == [t \in TableNames |-> 0]

NewObs(startRows, prevBulk) ==
  [ddlExecuted |-> 0, ddlRejected |-> {}, ddlCommitted |-> {},
   loadBegun |-> {}, loadDone |-> {},
   bulkAttempts |-> ZeroCount, fallbackRuns |-> ZeroCount,
   bulkFailed |-> {}, bulkCommitted |-> {}, prevBulkCommitted |-> prevBulk,
   preBulk |-> [k \in Keys |-> 0], runStartRows |-> startRows,
   loadedRows |-> startRows, reported |-> FALSE]

SanitizerIdle ==
  /\ col = <<>>
  /\ col_safe = <<>>
  /\ col_twice = <<>>

AnalyzerIdle ==
  /\ samples = <<>>
  /\ schemas = <<>>
  /\ relationships = <<>>

InferenceIdle ==
  /\ series = <<>>
  /\ col_info = <<>>
  /\ prev_info = <<>>

DirectoryIdle ==
  /\ files = <<>>
  /\ source_files = <<>>
  /\ warnings = {}

SnapshotsIdle == snapshots = <<>>

BetsIdle ==
  /\ credits = 0
  /\ bets = <<>>
  /\ requests = <<>>
  /\ ledger = <<>>

\* No analysis step is under study.
AnalysisIdle ==
  /\ SanitizerIdle
  /\ AnalyzerIdle
  /\ InferenceIdle
  /\ DirectoryIdle
  /\ SnapshotsIdle
  /\ BetsIdle

Init ==
  /\ \E present \in SUBSET TableNames :
       /\ Cardinality(present) <= MaxInput
       /\ metadata = SelectTables(AnalysisOrder, present)
       /\ LET budget == MaxInput - Cardinality(present)
          IN \E b1 \in BatchesOf("games", present, budget) :
             \E b2 \in BatchesOf("standings", present, budget - Len(b1)) :
             \E b3 \in BatchesOf("team_stats", present, budget - Len(b1) - Len(b2)) :
             \E b4 \in BatchesOf("injuries", present,
                                 budget - Len(b1) - Len(b2) - Len(b3)) :
             \E b5 \in BatchesOf("odds", present,
                                 budget - Len(b1) - Len(b2) - Len(b3) - Len(b4)) :
               /\ input = [t \in TableNames |->
                             CASE t = "games" -> b1 [] t = "standings" -> b2
                               [] t = "team_stats" -> b3 [] t = "injuries" -> b4
                               [] t = "odds" -> b5]
               /\ faults \in SetsUpTo(FaultItems(SelectTables(AnalysisOrder, present)),
                                      budget - Len(b1) - Len(b2) - Len(b3) - Len(b4)
                                        - Len(b5))
  /\ ddl_statements = <<>>
  /\ pc = "start"
  /\ run = 1
  /\ db = NewConnection(EmptyCatalog)
  /\ ddlIdx = 1
  /\ tblIdx = 1
  /\ rowIdx = 1
  /\ df = <<>>
  /\ success_count = 0
  /\ usedFallback = FALSE
  /\ obs = NewObs(EmptyRows, {})
  /\ AnalysisIdle

\* --------------------------------------------------------------- main()
\* main, steps 2-5: analysis and DDL generation; an empty metadata ends the
\* run before any statement is generated.
Analyze ==
  /\ pc = "start"
  /\ pc' = IF metadata = <<>> THEN "done" ELSE "confirm"
  /\ ddl_statements' = IF metadata = <<>> THEN <<>>
                        ELSE GenerateDDL(MetadataOf(metadata), <<>>)
  /\ UNCHANGED <<analysisVars, env, run, db, ddlIdx, tblIdx, rowIdx, df, success_count, usedFallback, obs>>

\* main, step 6: the operator's answer.
Confirm ==
  /\ pc = "confirm"
  /\ LET response == IF Declined \in faults THEN "n" ELSE "s"
     IN pc' = IF response = "s" THEN "connect" ELSE "done"
  /\ UNCHANGED <<analysisVars, env, ddl_statements, run, db, ddlIdx, tblIdx, rowIdx, df, success_count, usedFallback, obs>>

\* loader.connect() whose connection error is swallowed: main goes on.
ConnectIgnoresError ==
  /\ pc = "connect"
  /\ pc' = "ddl"
  /\ db' = NewConnection(db.durable)
  /\ ddlIdx' = 1
  /\ UNCHANGED <<analysisVars, env, ddl_statements, run, tblIdx, rowIdx, df, success_count, usedFallback, obs>>

\* loader.connect(); a connection error is caught by main and ends the run.
Connect ==
  /\ pc = "connect"
  /\ pc' = IF Unreachable \in faults THEN "done" ELSE "ddl"
  /\ db' = NewConnection(db.durable)
  /\ ddlIdx' = 1
  /\ UNCHANGED <<analysisVars, env, ddl_statements, run, tblIdx, rowIdx, df, success_count, usedFallback, obs>>

\* execute_ddl without the commit after a successful statement.
ExecuteDdlNoCommit ==
  /\ pc = "ddl"
  /\ ddlIdx <= Len(ddl_statements)
  /\ LET stmt == ddl_statements[ddlIdx]
         r == ExecuteStmt(db, stmt, faults)
     IN /\ db' = IF r.raised THEN Rollback(r.db) ELSE r.db
        /\ obs' = [obs EXCEPT
                     !.ddlExecuted = @ + 1,
                     !.ddlRejected = IF r.raised THEN @ \cup {ddlIdx} ELSE @,
                     !.ddlCommitted = IF r.raised THEN @ ELSE @ \cup {ddlIdx}]
  /\ ddlIdx' = ddlIdx + 1
  /\ UNCHANGED <<analysisVars, env, ddl_statements, pc, run, tblIdx, rowIdx, df, success_count, usedFallback>>

\* execute_ddl that lets a rejected statement's exception reach main.
ExecuteDdlFatal ==
  /\ pc = "ddl"
  /\ ddlIdx <= Len(ddl_statements)
  /\ LET stmt == ddl_statements[ddlIdx]
         r == ExecuteStmt(db, stmt, faults)
     IN /\ db' = IF r.raised THEN NewConnection(db.durable) ELSE Commit(r.db)
        /\ pc' = IF r.raised THEN "done" ELSE pc
        /\ obs' = [obs EXCEPT
                     !.ddlExecuted = @ + 1,
                     !.ddlRejected = IF r.raised THEN @ \cup {ddlIdx} ELSE @,
                     !.ddlCommitted = IF r.raised THEN @ ELSE @ \cup {ddlIdx}]
  /\ ddlIdx' = ddlIdx + 1
  /\ UNCHANGED <<analysisVars, env, ddl_statements, run, tblIdx, rowIdx, df, success_count, usedFallback>>

\* execute_ddl, one iteration: execute and commit, or report and roll back.
ExecuteDdl ==
  /\ pc = "ddl"
  /\ ddlIdx <= Len(ddl_statements)
  /\ LET stmt == ddl_statements[ddlIdx]
         r == ExecuteStmt(db, stmt, faults)
     IN /\ db' = IF r.raised THEN Rollback(r.db) ELSE Commit(r.db)
        /\ obs' = [obs EXCEPT
                     !.ddlExecuted = @ + 1,
                     !.ddlRejected = IF r.raised THEN @ \cup {ddlIdx} ELSE @,
                     !.ddlCommitted = IF r.raised THEN @ ELSE @ \cup {ddlIdx}]
  /\ ddlIdx' = ddlIdx + 1
  /\ UNCHANGED <<analysisVars, env, ddl_statements, pc, run, tblIdx, rowIdx, df, success_count, usedFallback>>

\* execute_ddl returns; load_all_data starts.
DdlDone ==
  /\ pc = "ddl"
  /\ ddlIdx > Len(ddl_statements)
  /\ pc' = "load"
  /\ tblIdx' = 1
  /\ UNCHANGED <<analysisVars, env, ddl_statements, run, db, ddlIdx, rowIdx, df, success_count, usedFallback, obs>>

FinishLoad(o, t, d) ==
  [o EXCEPT !.loadDone = @ \cup {t}, !.loadedRows[t] = d.view.rows[t]]

\* load_all_data, one iteration up to _copy_from_dataframe: read and clean
\* the table's files; an exception skips the table, an empty frame returns.
LoadTable ==
  /\ pc = "load"
  /\ tblIdx <= Len(metadata)
  /\ LET t == table_name
         begun == [obs EXCEPT !.loadBegun = @ \cup {t}, !.preBulk = db.view.rows[t]]
     IN IF ReadFault(t) \in faults
        THEN /\ pc' = "load"
             /\ tblIdx' = tblIdx + 1
             /\ df' = <<>>
             /\ obs' = FinishLoad(begun, t, db)
        ELSE /\ pc' = IF input[t] = <<>> THEN "count" ELSE "copy"
             /\ tblIdx' = tblIdx
             /\ df' = input[t]
             /\ obs' = begun
  /\ usedFallback' = FALSE
  /\ success_count' = 0
  /\ UNCHANGED <<analysisVars, env, ddl_statements, run, db, ddlIdx, rowIdx>>

\* _copy_from_dataframe: cursor.copy_expert.
BulkCopy ==
  /\ pc = "copy"
  /\ LET r == CopyExpert(db, table_name, df)
     IN /\ db' = r.db
        /\ pc' = IF r.raised THEN "bulk_failed" ELSE "bulk_ok"
        /\ obs' = [obs EXCEPT
                     !.bulkAttempts[table_name] = @ + 1,
                     !.bulkFailed = IF r.raised THEN @ \cup {table_name} ELSE @]
  /\ UNCHANGED <<analysisVars, env, ddl_statements, run, ddlIdx, tblIdx, rowIdx, df, success_count, usedFallback>>

\* _copy_from_dataframe without the commit after the COPY.
BulkNoCommit ==
  /\ pc = "bulk_ok"
  /\ db' = db
  /\ pc' = "count"
  /\ obs' = [obs EXCEPT !.bulkCommitted = @ \cup {table_name}]
  /\ UNCHANGED <<analysisVars, env, ddl_statements, run, ddlIdx, tblIdx, rowIdx, df, success_count, usedFallback>>

\* _copy_from_dataframe: conn.commit() after the COPY.
BulkCommit ==
  /\ pc = "bulk_ok"
  /\ db' = Commit(db)
  /\ pc' = "count"
  /\ obs' = [obs EXCEPT !.bulkCommitted = @ \cup {table_name}]
  /\ UNCHANGED <<analysisVars, env, ddl_statements, run, ddlIdx, tblIdx, rowIdx, df, success_count, usedFallback>>

\* _copy_from_dataframe whose except branch rolls back and raises again
\* instead of calling the fallback.
BulkRollbackReraise ==
  /\ pc = "bulk_failed"
  /\ db' = Rollback(db)
  /\ pc' = "load"
  /\ tblIdx' = tblIdx + 1
  /\ obs' = FinishLoad(obs, table_name, Rollback(db))
  /\ UNCHANGED <<analysisVars, env, ddl_statements, run, ddlIdx, rowIdx, df, success_count, usedFallback>>

\* _copy_from_dataframe: except: conn.rollback(), then the fallback starts.
BulkRollback ==
  /\ pc = "bulk_failed"
  /\ db' = Rollback(db)
  /\ pc' = "fallback"
  /\ rowIdx' = 1
  /\ success_count' = 0
  /\ usedFallback' = TRUE
  /\ obs' = [obs EXCEPT !.fallbackRuns[table_name] = @ + 1]
  /\ UNCHANGED <<analysisVars, env, ddl_statements, run, ddlIdx, tblIdx, df>>

\* _insert_with_skip_duplicates, one iteration of the row loop.
InsertRow ==
  /\ pc = "fallback"
  /\ rowIdx <= Len(df)
  /\ LET r == InsertOnConflict(db, table_name, df[rowIdx])
     IN /\ db' = r.db
        /\ success_count' = IF r.raised THEN success_count ELSE success_count + 1
  /\ rowIdx' = rowIdx + 1
  /\ UNCHANGED <<analysisVars, env, ddl_statements, pc, run, ddlIdx, tblIdx, df, usedFallback, obs>>

\* _insert_with_skip_duplicates: the single conn.commit() after the loop.
FallbackCommit ==
  /\ pc = "fallback"
  /\ rowIdx > Len(df)
  /\ db' = Commit(db)
  /\ pc' = "count"
  /\ UNCHANGED <<analysisVars, env, ddl_statements, run, ddlIdx, tblIdx, rowIdx, df, success_count, usedFallback, obs>>

\* load_all_data: _count_records; its exception is caught and only printed.
CountRecords ==
  /\ pc = "count"
  /\ LET r == SelectCount(db, table_name)
     IN /\ db' = r.db
        /\ obs' = FinishLoad(obs, table_name, r.db)
  /\ pc' = "load"
  /\ tblIdx' = tblIdx + 1
  /\ UNCHANGED <<analysisVars, env, ddl_statements, run, ddlIdx, rowIdx, df, success_count, usedFallback>>

\* main, step 8 and finally: the final report, then disconnect.
FinalReport ==
  /\ pc = "load"
  /\ tblIdx > Len(metadata)
  /\ pc' = "done"
  /\ db' = NewConnection(db.durable)
  /\ obs' = [obs EXCEPT !.reported = TRUE]
  /\ UNCHANGED <<analysisVars, env, ddl_statements, run, ddlIdx, tblIdx, rowIdx, df, success_count, usedFallback>>

\* The script is started again over the same files and the same store.
RunAgain ==
  /\ pc = "done"
  /\ run < MaxRuns
  /\ run' = run + 1
  /\ pc' = "start"
  /\ db' = NewConnection(db.durable)
  /\ ddlIdx' = 1
  /\ tblIdx' = 1
  /\ rowIdx' = 1
  /\ df' = <<>>
  /\ success_count' = 0
  /\ usedFallback' = FALSE
  /\ obs' = NewObs(db.durable.rows, obs.bulkCommitted)
  /\ ddl_statements' = <<>>
  /\ UNCHANGED <<analysisVars, env>>

Next ==
  \/ Analyze
  \/ Confirm
  \/ Connect
  \/ ExecuteDdl
  \/ DdlDone
  \/ LoadTable
  \/ BulkCopy
  \/ BulkCommit
  \/ BulkRollback
  \/ InsertRow
  \/ FallbackCommit
  \/ CountRecords
  \/ FinalReport
  \/ RunAgain

Spec == Init /\ [][Next]_vars

\* ------------------------------------------- _sanitize_column_name alone
\* The characters of the raw names: a digit, upper and lower case letters,
\* the percent sign and the separators.
NameAlphabet == {"3", "P", "%", "T", "O", "t", "o", " ", "-", "_"}

\* Raw names given in full: the keys of special_cases and column headers of
\* the scraped files.
NamedColumns ==
  DOMAIN special_cases
    \cup {<<"T", "e", "a", "m", " ", "N", "a", "m", "e">>,
          <<"T", "e", "a", "m">>,
          <<"t", "e", "a", "m", "_", "n", "a", "m", "e">>,
          <<"g", "a", "m", "e", "_", "i", "d">>,
          <<"G", "a", "m", "e", " ", "I", "D">>,
          <<"F", "R", "O", "M">>,
          <<"W", "i", "n", " ", "%">>,
          <<"2", "n", "d", "-", "H", "a", "l", "f">>}

SanitizerInputs ==
  UNION {[1..n -> NameAlphabet] : n \in 0..MaxNameLen} \cup NamedColumns

\* The loader and the connection as constructed, not running.
LoaderIdle ==
  /\ input = [t \in TableNames |-> <<>>]
  /\ faults = {}
  /\ run = 1
  /\ db = NewConnection(EmptyCatalog)
  /\ ddlIdx = 1
  /\ tblIdx = 1
  /\ rowIdx = 1
  /\ df = <<>>
  /\ success_count = 0
  /\ usedFallback = FALSE
  /\ obs = NewObs(EmptyRows, {})

SanitizerInit ==
  /\ LoaderIdle
  /\ metadata = <<>>
  /\ ddl_statements = <<>>
  /\ pc = "sanitize"
  /\ col \in SanitizerInputs
  /\ col_safe = <<>>
  /\ col_twice = <<>>
  /\ AnalyzerIdle /\ InferenceIdle /\ DirectoryIdle /\ SnapshotsIdle /\ BetsIdle

\* _infer_columns: col_safe = self._sanitize_column_name(col)
SanitizeOnce ==
  /\ pc = "sanitize"
  /\ col_safe' = SanitizeColumnName(col)
  /\ pc' = "sanitized"
  /\ UNCHANGED <<loaderVars, metadata, ddl_statements, col, col_twice, analyzerVars,
                 inferenceVars, directoryVars, snapshots, betVars>>

\* The sanitized name is sanitized again.
SanitizeTwice ==
  /\ pc = "sanitized"
  /\ col_twice' = SanitizeColumnName(col_safe)
  /\ pc' = "resanitized"
  /\ UNCHANGED <<loaderVars, metadata, ddl_statements, col, col_safe, analyzerVars,
                 inferenceVars, directoryVars, snapshots, betVars>>

SanitizerNext ==
  \/ SanitizeOnce
  \/ SanitizeTwice

SanitizerSpec == SanitizerInit /\ [][SanitizerNext]_vars

\* ------------------------------------- analysis, detection and generation
\* The headers the sample of each table may hold.
SampleHeaders(t) ==
  CASE t = "games" -> {game_id, Game_ID, fecha}
    [] t = "standings" -> {team_name, Team_Name, season}
    [] t = "team_stats" -> {team_name, Team_Name, season}
    [] t = "injuries" -> {Team, team_name, Player}
    [] t = "odds" -> {game_id, home_team, bookmakers}

\* The samples of table t with at most n columns; pandas keeps the headers
\* of a frame distinct.
Frames(t, n) ==
  {f \in UNION {[1..m -> [name : SampleHeaders(t), hasna : BOOLEAN]] : m \in 0..n} :
     \A i, j \in 1..Len(f) : f[i].name = f[j].name => i = j}

AnalysisInit ==
  /\ LoaderIdle
  /\ metadata = <<>>
  /\ ddl_statements = <<>>
  /\ pc = "analyze"
  /\ SanitizerIdle /\ InferenceIdle /\ DirectoryIdle /\ SnapshotsIdle /\ BetsIdle
  /\ \E f1 \in Frames("games", MaxColumns) :
     \E f2 \in Frames("standings", MaxColumns - Len(f1)) :
     \E f3 \in Frames("team_stats", MaxColumns - Len(f1) - Len(f2)) :
     \E f4 \in Frames("injuries", MaxColumns - Len(f1) - Len(f2) - Len(f3)) :
     \E f5 \in Frames("odds", MaxColumns - Len(f1) - Len(f2) - Len(f3) - Len(f4)) :
       samples = [t \in TableNames |->
                    CASE t = "games" -> f1 [] t = "standings" -> f2
                      [] t = "team_stats" -> f3 [] t = "injuries" -> f4
                      [] t = "odds" -> f5]
  /\ schemas = <<>>
  /\ relationships = <<>>

\* main, step 2: analyzer.analyze_all_files(); an exception ends main, an
\* empty metadata makes it return.
AnalyzeAllFiles ==
  /\ pc = "analyze"
  /\ LET done == AnalysedTables(samples)
     IN /\ schemas' = [t \in done |-> AnalyzeTable(t, samples[t])]
        /\ metadata' = SelectTables(AnalysisOrder, done)
        /\ pc' = IF TeamStatsRaises(samples) THEN "raised"
                 ELSE IF done = {} THEN "returned" ELSE "detect"
  /\ UNCHANGED <<loaderVars, ddl_statements, sanitizerVars, samples, relationships,
                 inferenceVars, directoryVars, snapshots, betVars>>

\* main, step 3: detector.detect_relationships()
DetectRelationships ==
  /\ pc = "detect"
  /\ relationships' = DetectByNamingConvention(schemas)
  /\ pc' = "generate"
  /\ UNCHANGED <<loaderVars, metadata, ddl_statements, sanitizerVars, samples, schemas,
                 inferenceVars, directoryVars, snapshots, betVars>>

\* main, step 5: ddl_generator.generate_ddl()
GenerateStatements ==
  /\ pc = "generate"
  /\ ddl_statements' = GenerateDDL(schemas, relationships)
  /\ pc' = "generated"
  /\ UNCHANGED <<loaderVars, metadata, sanitizerVars, analyzerVars, inferenceVars,
                 directoryVars, snapshots, betVars>>

AnalysisNext ==
  \/ AnalyzeAllFiles
  \/ DetectRelationships
  \/ GenerateStatements

AnalysisSpec == AnalysisInit /\ [][AnalysisNext]_vars

\* ---------------------------------------------- type inference on its own
\* The position of a cell kind in CellKinds.
KindRank(k) == CHOOSE i \in 1..Len(CellKinds) : CellKinds[i] = k

\* The columns of at most MaxCells cells, cells in the order of CellKinds (no
\* test of the inference looks at the order of the cells). Booleans are
\* drawn as whole columns only.
CellColumns ==
  {c \in UNION {[1..n -> Range(CellKinds)] : n \in 0..MaxCells} :
     /\ \A i \in 1..(Len(c) - 1) : KindRank(c[i]) <= KindRank(c[i + 1])
     /\ (\E i \in 1..Len(c) : c[i] = "bool") => \A i \in 1..Len(c) : c[i] = "bool"}

\* The headers of the column: a date alias in two spellings, other names.
SeriesNames == {fecha, Fecha, wins, team_name}

InferenceInit ==
  /\ LoaderIdle
  /\ metadata = <<>>
  /\ ddl_statements = <<>>
  /\ pc = "infer"
  /\ SanitizerIdle /\ AnalyzerIdle /\ DirectoryIdle /\ SnapshotsIdle /\ BetsIdle
  /\ series \in [name : SeriesNames, cells : CellColumns]
  /\ col_info = <<>>
  /\ prev_info = <<>>

\* _infer_columns on the column.
InferSeries ==
  /\ pc = "infer"
  /\ col_info' = InferColumn(series)
  /\ pc' = "inferred"
  /\ UNCHANGED <<loaderVars, metadata, ddl_statements, sanitizerVars, analyzerVars, series,
                 prev_info, directoryVars, snapshots, betVars>>

\* The file gets one more row, with an empty cell in the column.
AddEmptyCell ==
  /\ pc = "inferred"
  /\ Len(series.cells) < MaxCells
  /\ series' = [series EXCEPT !.cells = <<"missing">> \o @]
  /\ prev_info' = col_info
  /\ pc' = "emptied"
  /\ UNCHANGED <<loaderVars, metadata, ddl_statements, sanitizerVars, analyzerVars, col_info,
                 directoryVars, snapshots, betVars>>

\* _infer_columns on the column with the empty cell.
InferAgain ==
  /\ pc = "emptied"
  /\ col_info' = InferColumn(series)
  /\ pc' = "reinferred"
  /\ UNCHANGED <<loaderVars, metadata, ddl_statements, sanitizerVars, analyzerVars, series,
                 prev_info, directoryVars, snapshots, betVars>>

InferenceNext ==
  \/ InferSeries
  \/ AddEmptyCell
  \/ InferAgain

InferenceSpec == InferenceInit /\ [][InferenceNext]_vars

\* ------------------------------------- analysis and load of a sharded table
\* The stems of the files of the directory.
StemPool ==
  {<<"2", "0", "2", "4", "-", "2", "5">>,
   <<"2", "0", "2", "5", "-", "2", "6">>,
   <<"n", "o", "t", "e", "s">>,
   <<"2", "-", "5">>,
   <<"2", "0", "2", "4", "-", "2", "5", "-", "o", "l", "d">>,
   <<"x", "-", "2", "5">>,
   <<"2", "0", "2", "4", "2", "5">>}

FileEntries == [stem : StemPool, ext : {"csv", "txt"}, corrupt : BOOLEAN]

\* The listings of at most MaxFiles files with distinct names.
Listings ==
  {l \in UNION {[1..n -> FileEntries] : n \in 0..MaxFiles} :
     \A i, j \in 1..Len(l) : (l[i].stem = l[j].stem /\ l[i].ext = l[j].ext) => i = j}

DirectoryInit ==
  /\ LoaderIdle
  /\ metadata = <<>>
  /\ ddl_statements = <<>>
  /\ pc = "analyze"
  /\ SanitizerIdle /\ AnalyzerIdle /\ InferenceIdle /\ SnapshotsIdle /\ BetsIdle
  /\ files \in [table : {"standings", "team_stats"}, entries : Listings]
  /\ source_files = <<>>
  /\ warnings = {}

RECURSIVE Ascending(_)
\* The members of a set of positions, in increasing order.
Ascending(S) ==
  IF S = {} THEN <<>>
  ELSE LET m == CHOOSE x \in S : \A y \in S : x <= y
       IN <<m>> \o Ascending(S \ {m})

\* _analyze_standings / _analyze_team_stats: the table is left out without a
\* kept file, the exception of pd.read_csv ends main, else the kept files are
\* the 'source_files' of the table.
AnalyzeShards ==
  /\ pc = "analyze"
  /\ LET kept == CsvFiles(files.table, files.entries)
     IN /\ warnings' = Warned(files.table, files.entries)
        /\ pc' = IF kept = {} THEN "absent"
                 ELSE IF ReadRaises(files.entries, kept) THEN "raised" ELSE "analysed"
        /\ source_files' = IF kept = {} \/ ReadRaises(files.entries, kept)
                           THEN <<>> ELSE Ascending(kept)
        /\ metadata' = IF kept = {} \/ ReadRaises(files.entries, kept)
                       THEN <<>> ELSE <<files.table>>
  /\ UNCHANGED <<loaderVars, ddl_statements, sanitizerVars, analyzerVars, inferenceVars,
                 files, snapshots, betVars>>

\* _load_from_multiple_csv: every source file is read and concatenated; df
\* holds, row by row, the file the row comes from.
LoadShards ==
  /\ pc = "analysed"
  /\ df' = source_files
  /\ pc' = "combined"
  /\ UNCHANGED <<input, faults, run, db, ddlIdx, tblIdx, rowIdx, success_count, usedFallback,
                 obs, metadata, ddl_statements, sanitizerVars, analyzerVars, inferenceVars,
                 directoryVars, snapshots, betVars>>

DirectoryNext ==
  \/ AnalyzeShards
  \/ LoadShards

DirectorySpec == DirectoryInit /\ [][DirectoryNext]_vars

\* ------------------------------------------- runs over snapshot directories
\* The snapshot tables: the analysis keeps one file of their directory.
SnapshotTables == {"injuries", "odds"}

\* snapshots[t] holds the rows of the files of the directory of t, in the
\* order of their st_mtime; max(csv_files, key=st_mtime) is the last one and
\* is the 'source_file' the loader reads.
LatestRows(snaps) == IF snaps = <<>> THEN <<>> ELSE snaps[Len(snaps)]

\* The rows of a file written after the others.
NewBatches == UNION {[1..m -> RowValues] : m \in 0..MaxSnapshotRows}

SnapshotInit ==
  /\ \E present \in (SUBSET SnapshotTables) \ {{}} :
       /\ metadata = SelectTables(AnalysisOrder, present)
       /\ \E b1 \in BatchesOf("injuries", present, MaxSnapshotRows) :
          \E b2 \in BatchesOf("odds", present, MaxSnapshotRows) :
            snapshots = [t \in TableNames |->
                           IF t \notin present THEN <<>>
                           ELSE IF t = "injuries" THEN <<b1>> ELSE <<b2>>]
  /\ input = [t \in TableNames |-> LatestRows(snapshots[t])]
  /\ faults = {}
  /\ ddl_statements = <<>>
  /\ pc = "start"
  /\ run = 1
  /\ db = NewConnection(EmptyCatalog)
  /\ ddlIdx = 1
  /\ tblIdx = 1
  /\ rowIdx = 1
  /\ df = <<>>
  /\ success_count = 0
  /\ usedFallback = FALSE
  /\ obs = NewObs(EmptyRows, {})
  /\ SanitizerIdle /\ AnalyzerIdle /\ InferenceIdle /\ DirectoryIdle /\ BetsIdle

\* A newer file is written into the directory of one snapshot table and the
\* script is started again over the same store.
RunAfterSnapshot ==
  /\ pc = "done"
  /\ run < MaxRuns
  /\ \E t \in Range(metadata), b \in NewBatches :
       /\ snapshots' = [snapshots EXCEPT ![t] = Append(@, b)]
       /\ input' = [input EXCEPT ![t] = LatestRows(snapshots'[t])]
  /\ run' = run + 1
  /\ pc' = "start"
  /\ db' = NewConnection(db.durable)
  /\ ddlIdx' = 1
  /\ tblIdx' = 1
  /\ rowIdx' = 1
  /\ df' = <<>>
  /\ success_count' = 0
  /\ usedFallback' = FALSE
  /\ obs' = NewObs(db.durable.rows, obs.bulkCommitted)
  /\ ddl_statements' = <<>>
  /\ UNCHANGED <<metadata, faults, sanitizerVars, analyzerVars, inferenceVars, directoryVars,
                 betVars>>

SnapshotNext ==
  \/ Analyze
  \/ Confirm
  \/ Connect
  \/ ExecuteDdl
  \/ DdlDone
  \/ LoadTable
  \/ BulkCopy
  \/ BulkCommit
  \/ BulkRollback
  \/ InsertRow
  \/ FallbackCommit
  \/ CountRecords
  \/ FinalReport
  \/ RunAfterSnapshot

SnapshotSpec == SnapshotInit /\ [][SnapshotNext]_vars

\* ------------------------------------------------------ the betting service
\* One user; amounts are whole units. A bet is the row of the bets table:
\* bet_amount, potential_payout and status; its id is its position in bets.
Amounts == 1..MaxAmount

Payouts == 1..(MaxAmount + 1)

\* BetStatus
BetStatus == {"PENDING", "WON", "LOST", "CANCELLED"}

\* A field the BetUpdate body leaves unset (exclude_unset=True).
Unset == 0

BetUpdates == [bet_amount : Amounts \cup {Unset}, potential_payout : Payouts \cup {Unset}]

\* seq without its i-th element.
RemoveAt(seq, i) == SubSeq(seq, 1, i - 1) \o SubSeq(seq, i + 1, Len(seq))

\* The variables the betting service leaves alone.
notBetVars == <<loaderVars, metadata, ddl_statements, pc, sanitizerVars, analyzerVars,
                inferenceVars, directoryVars, snapshots>>

\* ledger records, for each bet, how often the user was credited for it and
\* the first status it took after PENDING, the balance at the start, whether
\* settle_bet was called and whether two calls ever overlapped.
BetInit ==
  /\ LoaderIdle
  /\ metadata = <<>>
  /\ ddl_statements = <<>>
  /\ pc = "serve"
  /\ SanitizerIdle /\ AnalyzerIdle /\ InferenceIdle /\ DirectoryIdle /\ SnapshotsIdle
  /\ credits \in 0..MaxCredits
  /\ bets = <<>>
  /\ requests = <<>>
  /\ ledger = [total |-> credits, credited |-> <<>>, first |-> <<>>,
               settled |-> FALSE, overlapped |-> FALSE]

\* The ledger after a call that ran while another one was in progress.
Overlap(l) == [l EXCEPT !.overlapped = @ \/ requests # <<>>]

\* The ledger after bet b was written with status st.
Left(l, b, st) ==
  [l EXCEPT !.first[b] = IF @ = "PENDING" THEN st ELSE @]

\* UserService.deduct_credits and BetService.place_bet: without the credits
\* the call raises ValueError and nothing is written.
PlaceBet(bet_amount, potential_payout) ==
  /\ Len(bets) < MaxBets
  /\ IF credits < bet_amount
     THEN UNCHANGED <<credits, bets, ledger>>
     ELSE /\ credits' = credits - bet_amount
          /\ bets' = Append(bets, [bet_amount |-> bet_amount,
                                   potential_payout |-> potential_payout,
                                   status |-> "PENDING"])
          /\ ledger' = [Overlap(ledger) EXCEPT !.credited = Append(@, 0),
                                               !.first = Append(@, "PENDING")]
  /\ UNCHANGED <<notBetVars, requests>>

\* BetService.update_bet: the set fields are written onto a PENDING bet; the
\* user's credits are not touched.
UpdateBet(b, bet_update) ==
  /\ b \in 1..Len(bets)
  /\ bets[b].status = "PENDING"
  /\ bets' = [bets EXCEPT
                ![b].bet_amount =
                   IF bet_update.bet_amount = Unset THEN @ ELSE bet_update.bet_amount,
                ![b].potential_payout =
                   IF bet_update.potential_payout = Unset THEN @
                   ELSE bet_update.potential_payout]
  /\ ledger' = Overlap(ledger)
  /\ UNCHANGED <<notBetVars, credits, requests>>

\* cancel_bet, lines 88-90: the bet is read and found PENDING (any other
\* status returns False at once).
CancelBegin(b) ==
  /\ Len(requests) < MaxRequests
  /\ b \in 1..Len(bets)
  /\ bets[b].status = "PENDING"
  /\ requests' = Append(requests, [op |-> "cancel", bet |-> b, at |-> "refund",
                                   amount |-> bets[b].bet_amount, won |-> FALSE])
  /\ ledger' = Overlap(ledger)
  /\ UNCHANGED <<notBetVars, credits, bets>>

\* cancel_bet, line 93: add_credits reads the user, adds the stake read with
\* the bet and commits.
CancelRefund(i) ==
  /\ i \in 1..Len(requests)
  /\ requests[i].op = "cancel" /\ requests[i].at = "refund"
  /\ credits' = credits + requests[i].amount
  /\ ledger' = [ledger EXCEPT !.credited[requests[i].bet] = @ + 1]
  /\ requests' = [requests EXCEPT ![i].at = "mark"]
  /\ UNCHANGED <<notBetVars, bets>>

\* cancel_bet, lines 96-112: the status CANCELLED is written and committed,
\* whatever the row holds by then.
CancelMark(i) ==
  /\ i \in 1..Len(requests)
  /\ requests[i].op = "cancel" /\ requests[i].at = "mark"
  /\ bets' = [bets EXCEPT ![requests[i].bet].status = "CANCELLED"]
  /\ ledger' = Left(ledger, requests[i].bet, "CANCELLED")
  /\ requests' = RemoveAt(requests, i)
  /\ UNCHANGED <<notBetVars, credits>>

\* settle_bet, lines 117-119: the bet is read and found PENDING.
SettleBegin(b, won) ==
  /\ Len(requests) < MaxRequests
  /\ b \in 1..Len(bets)
  /\ bets[b].status = "PENDING"
  /\ requests' = Append(requests, [op |-> "settle", bet |-> b, at |-> "commit",
                                   amount |-> bets[b].potential_payout, won |-> won])
  /\ ledger' = [Overlap(ledger) EXCEPT !.settled = TRUE]
  /\ UNCHANGED <<notBetVars, credits, bets>>

\* settle_bet, lines 121-131: WON and the payout are committed together by
\* the commit of add_credits, LOST by the commit of settle_bet.
SettleCommit(i) ==
  /\ i \in 1..Len(requests)
  /\ requests[i].op = "settle" /\ requests[i].at = "commit"
  /\ LET b == requests[i].bet
     IN IF requests[i].won
        THEN /\ bets' = [bets EXCEPT ![b].status = "WON"]
             /\ credits' = credits + requests[i].amount
             /\ ledger' = [Left(ledger, b, "WON") EXCEPT !.credited[b] = @ + 1]
        ELSE /\ bets' = [bets EXCEPT ![b].status = "LOST"]
             /\ credits' = credits
             /\ ledger' = Left(ledger, b, "LOST")
  /\ requests' = RemoveAt(requests, i)
  /\ UNCHANGED notBetVars

BetNext ==
  \/ \E bet_amount \in Amounts, potential_payout \in Payouts :
       PlaceBet(bet_amount, potential_payout)
  \/ \E b \in 1..MaxBets, bet_update \in BetUpdates : UpdateBet(b, bet_update)
  \/ \E b \in 1..MaxBets : CancelBegin(b)
  \/ \E i \in 1..MaxRequests : CancelRefund(i)
  \/ \E i \in 1..MaxRequests : CancelMark(i)
  \/ \E b \in 1..MaxBets, won \in BOOLEAN : SettleBegin(b, won)
  \/ \E i \in 1..MaxRequests : SettleCommit(i)

BetSpec == BetInit /\ [][BetNext]_vars

\* ------------------------------------------------------------ properties
LoadPcs == {"load", "copy", "bulk_ok", "bulk_failed", "fallback", "count"}

\* The rows of a frame as a table content.
BagOf(rows) == [k \in Keys |-> Cardinality({i \in 1..Len(rows) : rows[i] = k})]

BagSum(a, b) == [k \in Keys |-> a[k] + b[k]]

NoRows == [k \in Keys |-> 0]

\* Whether the effect of a DDL statement is in catalog cat.
StmtApplied(cat, stmt) ==
  CASE stmt.kind = "schema" -> cat.schema
    [] stmt.kind = "table" -> stmt.table \in cat.tables
    [] stmt.kind = "index" -> <<stmt.table, stmt.column>> \in cat.indexes

\* C1: in the fallback path a failing row is skipped without affecting any
\* other row: once the load of a table that went through the fallback has
\* finished, every row of the frame that the store accepts is in the table.
C1_FailingRowSkippedAlone ==
  (pc = "count" /\ usedFallback /\ table_name \in db.durable.tables)
    => \A i \in 1..Len(df) :
         df[i] # Malformed => db.durable.rows[table_name][df[i]] >= 1

\* C2: the bulk path is all-or-nothing: a failed COPY leaves nothing durable,
\* the fallback starts on a table that holds none of the rows of the bulk
\* attempt, and a committed COPY has added every row of the frame.
C2_BulkAllOrNothing ==
  /\ pc = "bulk_failed" => db.durable.rows[table_name] = obs.preBulk
  /\ (pc = "fallback" /\ rowIdx = 1)
       => /\ db.view.rows[table_name] = obs.preBulk
          /\ db.durable.rows[table_name] = obs.preBulk
  /\ (pc = "count" /\ ~usedFallback /\ obs.bulkAttempts[table_name] = 1)
       => db.durable.rows[table_name] = BagSum(obs.preBulk, BagOf(df))

\* C2 witness: the fallback is about to start after a COPY that had written
\* its first row before the second row failed.
C2_Witness ==
  /\ pc = "fallback" /\ rowIdx = 1
  /\ table_name \in db.view.tables
  /\ Len(df) = 2 /\ df[1] # Malformed /\ df[2] = Malformed

\* Every row of frame rows is in the table content before.
Populated(before, rows) ==
  \A i \in 1..Len(rows) : rows[i] # Malformed /\ before[rows[i]] >= 1

\* C3: a second run over a store the first run populated, through the
\* fallback path, reports no row loaded (every row skipped) and leaves the
\* table's rows unchanged.
C3_RetryReportsNothingLoaded ==
  (pc = "count" /\ run > 1 /\ usedFallback
     /\ Populated(obs.runStartRows[table_name], df))
    => /\ success_count = 0
       /\ db.durable.rows[table_name] = obs.runStartRows[table_name]

\* C4: for every table, a second run after a run whose bulk path committed
\* falls back and adds no row.
C4_RerunAfterBulkAddsNothing ==
  (pc = "count" /\ run > 1 /\ table_name \in obs.prevBulkCommitted)
    => /\ usedFallback
       /\ db.durable.rows[table_name] = obs.runStartRows[table_name]

\* Frame rows conforms to the schema of table t and repeats no primary key.
Conforms(t, rows) ==
  /\ \A i \in 1..Len(rows) : rows[i] # Malformed
  /\ HasPK(t) => \A i, j \in 1..Len(rows) : rows[i] = rows[j] => i = j

\* C5: a conforming frame without duplicate primary keys, loaded into a
\* table freshly created from the generated DDL, goes through the bulk path
\* alone and the table then holds exactly the rows of the frame.
C5_ConformingLoadUsesBulkOnly ==
  (pc = "count" /\ run = 1 /\ table_name \in db.durable.tables
     /\ obs.preBulk = NoRows /\ Conforms(table_name, df))
    => /\ ~usedFallback
       /\ db.durable.rows[table_name] = BagOf(df)

\* C6: a failed bulk transfer is followed by exactly one fallback; the bulk
\* transfer of a table is attempted at most once in a run and not after the
\* fallback has begun; a bulk failure does not stop the remaining tables.
C6_OneFallbackPerBulkFailure ==
  /\ \A t \in TableNames :
       /\ obs.bulkAttempts[t] <= 1
       /\ obs.fallbackRuns[t] <= obs.bulkAttempts[t]
       /\ (t \in obs.bulkFailed /\ t \in obs.loadDone) => obs.fallbackRuns[t] = 1
       /\ t \notin obs.bulkFailed => obs.fallbackRuns[t] = 0
  /\ pc = "fallback" => obs.fallbackRuns[table_name] = 1
  /\ (pc = "done" /\ obs.bulkFailed # {})
       => obs.loadDone = Range(metadata) /\ obs.reported

\* C6 witness: the run has ended, an earlier table's bulk transfer failed and
\* a later table was loaded through the bulk path.
C6_Witness ==
  /\ pc = "done"
  /\ \E i, j \in 1..Len(metadata) :
       i < j /\ metadata[i] \in obs.bulkFailed /\ metadata[j] \in obs.bulkCommitted

\* C7: a table that is the target of a relationship starts loading only after
\* the load of every source table has completed: team_stats after both
\* standings and injuries.
C7_TargetLoadsAfterSources ==
  \A pair \in RolePairs :
    (pair[2] \in obs.loadBegun /\ pair[1] \in Range(metadata))
      => pair[1] \in obs.loadDone

\* C8: no load begins until every DDL statement has been executed and each
\* successful one is committed; no DDL statement runs once a load has begun.
C8_DdlBarrier ==
  (pc \in LoadPcs \/ obs.loadBegun # {})
    => /\ obs.ddlExecuted = Len(ddl_statements)
       /\ obs.ddlCommitted \cup obs.ddlRejected = 1..Len(ddl_statements)
       /\ \A i \in obs.ddlCommitted : StmtApplied(db.durable, ddl_statements[i])
       /\ db.view.schema = db.durable.schema
       /\ db.view.tables = db.durable.tables
       /\ db.view.indexes = db.durable.indexes

\* C8 witness: a bulk transfer is about to start after a DDL sequence of a
\* schema, two tables and their indexes.
C8_Witness ==
  /\ pc = "copy"
  /\ Len(metadata) = 2
  /\ obs.ddlExecuted = Len(ddl_statements)
  /\ obs.ddlCommitted = 1..Len(ddl_statements)

\* C9: once the load of a table has finished, nothing that happens while later
\* tables are loaded changes its rows, in the store or for the connection.
C9_NoCrossTableRollback ==
  \A t \in obs.loadDone :
    /\ db.durable.rows[t] = obs.loadedRows[t]
    /\ db.view.rows[t] = obs.loadedRows[t]

\* C9 witness: an earlier table holds committed rows and the bulk transfer of
\* a later table has just been rolled back.
C9_Witness ==
  /\ pc = "fallback"
  /\ \E a \in obs.loadDone :
       a \in obs.bulkCommitted /\ db.durable.rows[a] # NoRows

\* C10: a rejected DDL statement is rolled back and skipped: the statements
\* after it are executed, the statements committed stay committed, and the
\* run goes on to the loads and the report.
C10_RejectedDdlSkipped ==
  /\ pc = "ddl" => db.txn = "idle" /\ obs.ddlExecuted = ddlIdx - 1
  /\ \A i \in obs.ddlCommitted : StmtApplied(db.durable, ddl_statements[i])
  /\ (obs.ddlRejected # {} /\ pc \in LoadPcs \cup {"done"})
       => /\ obs.ddlCommitted \cup obs.ddlRejected = 1..Len(ddl_statements)
          /\ pc = "done" => obs.reported

\* C10 witness: the loads have begun after a DDL sequence in which a rejected
\* statement stands between two committed ones.
C10_Witness ==
  /\ pc = "load"
  /\ \E i, j, k \in 1..Len(ddl_statements) :
       /\ i < j /\ j < k
       /\ i \in obs.ddlCommitted /\ j \in obs.ddlRejected /\ k \in obs.ddlCommitted

\* C11: when the store cannot be reached at connect time the run is aborted
\* at once: no DDL statement is executed, no bulk transfer and no fallback is
\* attempted, and the store is left as it was.
C11_UnreachableAbortsAtOnce ==
  Unreachable \in faults
    => /\ pc \notin {"ddl"} \cup LoadPcs
       /\ obs.ddlExecuted = 0
       /\ obs.loadBegun = {}
       /\ \A t \in TableNames : obs.bulkAttempts[t] = 0 /\ obs.fallbackRuns[t] = 0
       /\ db.durable = EmptyCatalog

\* C11 witness: a run with tables to load, generated DDL and a consenting
\* operator has ended at the failed connect.
C11_Witness ==
  /\ pc = "done"
  /\ Unreachable \in faults /\ Declined \notin faults
  /\ Len(ddl_statements) >= 2
  /\ \E t \in Range(metadata) : input[t] # <<>>

\* C12: every run that is not aborted by a connectivity error (nor cancelled
\* by the operator) ends with the final report, also when tables are empty or
\* absent because their input was skipped.
C12_EveryRunReports ==
  (pc = "done" /\ Unreachable \notin faults /\ Declined \notin faults) => obs.reported

\* C18: sanitizing is idempotent: sanitizing a sanitized name returns it
\* unchanged, for special cases, leading digits, '%', separators and reserved
\* words alike.
C18_SanitizeIdempotent ==
  pc = "resanitized" => col_twice = col_safe

\* C18 witness: the reserved word "TO" was sanitized to "to_stat" and that
\* name was sanitized again.
C18_Witness ==
  /\ pc = "resanitized"
  /\ col = <<"T", "O">>
  /\ col_safe = <<"t", "o", "_", "s", "t", "a", "t">>

\* C19: a sanitized name holds no upper case letter, does not start with a
\* digit and is not a reserved word.
C19_SanitizedIsIdentifier ==
  pc \in {"sanitized", "resanitized"}
    => /\ \A i \in 1..Len(col_safe) : col_safe[i] \notin DOMAIN LowerOf
       /\ col_safe # <<>> => col_safe[1] \notin Digits
       /\ col_safe \notin reserved_words

\* C19 witness: a raw name outside the special cases that starts with a
\* digit and holds upper case letters has been sanitized.
C19_Witness ==
  /\ pc = "sanitized"
  /\ col = <<"3", "T", "O">>
  /\ col_safe = <<"s", "t", "a", "t", "_", "3", "t", "o">>

\* C20: a raw name that is a key of the special cases is mapped to that
\* entry's value and to nothing else; other names go through the rule chain:
\* "3P%" gives "three_point_percent", "TO" gives "to_stat" and "Team Name"
\* gives "team_name".
C20_SpecialCasesFirst ==
  pc = "sanitized"
    => /\ col \in DOMAIN special_cases => col_safe = special_cases[col]
       /\ col = <<"3", "P", "%">> => col_safe = <<"t", "h", "r", "e", "e", "_", "p", "o", "i", "n", "t", "_", "p", "e", "r", "c", "e", "n", "t">>
       /\ col = <<"T", "O">> => col_safe = <<"t", "o", "_", "s", "t", "a", "t">>
       /\ col = <<"T", "e", "a", "m", " ", "N", "a", "m", "e">> => col_safe = <<"t", "e", "a", "m", "_", "n", "a", "m", "e">>
       /\ Strip(col) \notin DOMAIN special_cases => col_safe = RuleChain(Strip(col))

\* C20 witness: the special case "3P%" has been sanitized.
C20_Witness ==
  /\ pc = "sanitized"
  /\ col = <<"3", "P", "%">>
  /\ col_safe = <<"t", "h", "r", "e", "e", "_", "p", "o", "i", "n", "t", "_", "p", "e", "r", "c", "e", "n", "t">>

\* C13: whenever an analysed table has a primary key, the named column is
\* one of the table's columns and is not nullable, whatever the sample.
C13_PrimaryKeyColumnNotNull ==
  \A t \in DOMAIN schemas :
    schemas[t].primary_key # NoKey
      => /\ schemas[t].primary_key \in DOMAIN schemas[t].columns
         /\ ~schemas[t].columns[schemas[t].primary_key].nullable

\* The linking column of the configured table-role pairs.
LinkingName == team_name

\* Both tables of a pair are analysed and hold the linking column.
Linked(md, pair) ==
  /\ pair[1] \in DOMAIN md /\ pair[2] \in DOMAIN md
  /\ LinkingName \in DOMAIN md[pair[1]].columns
  /\ LinkingName \in DOMAIN md[pair[2]].columns

\* The relationships emitted from table pair[1] to table pair[2].
Emitted(rels, pair) ==
  {i \in 1..Len(rels) : rels[i].from_table = pair[1] /\ rels[i].to_table = pair[2]}

\* C14: for each configured pair exactly one relationship is emitted if and
\* only if both schemas hold a column with the sanitized linking name, none
\* is emitted otherwise, and none for any other pair of tables.
C14_RelationshipIffCommonColumn ==
  pc \in {"generate", "generated"}
    => /\ \A pair \in RolePairs :
            Cardinality(Emitted(relationships, pair)) = IF Linked(schemas, pair) THEN 1 ELSE 0
       /\ \A i \in 1..Len(relationships) :
            <<relationships[i].from_table, relationships[i].to_table>> \in RolePairs

\* C15: every relationship the detector returns names columns that exist in
\* the schemas of its two tables.
C15_RelationshipColumnsExist ==
  \A i \in 1..Len(relationships) :
    LET rel == relationships[i]
    IN /\ rel.from_table \in DOMAIN schemas
       /\ rel.to_table \in DOMAIN schemas
       /\ rel.from_column \in DOMAIN schemas[rel.from_table].columns
       /\ rel.to_column \in DOMAIN schemas[rel.to_table].columns

\* C15 witness: the detector has returned a relationship for schemas in which
\* the injuries table is analysed too.
C15_Witness ==
  /\ pc = "generate"
  /\ Len(relationships) = 1
  /\ "injuries" \in DOMAIN schemas

\* The positions of ddl_statements holding a statement of kind k for table t.
StmtsOf(k, t) ==
  {i \in 1..Len(ddl_statements) :
     ddl_statements[i].kind = k /\ ddl_statements[i].table = t}

\* The positions of ddl_statements holding a statement of kind k.
StmtsOfKind(k) == {i \in 1..Len(ddl_statements) : ddl_statements[i].kind = k}

\* The entries of the index hints of table t.
HintsOf(t) == {schemas[t].indexes[i] : i \in 1..Len(schemas[t].indexes)}

\* C16: the generated sequence starts with the one create-schema statement,
\* goes on with exactly one create-table statement per analysed table, a
\* relationship's target before its source, and ends with the create-index
\* statements: one per hinted column that is a column of the table, none for
\* the others, none before the create-table statement of its table.
C16_DdlOrder ==
  pc = "generated"
    => /\ StmtsOfKind("schema") = {1}
       /\ \A t \in DOMAIN schemas : Cardinality(StmtsOf("table", t)) = 1
       /\ \A i \in StmtsOfKind("table") : ddl_statements[i].table \in DOMAIN schemas
       /\ StmtsOfKind("table") = 2..(Cardinality(DOMAIN schemas) + 1)
       /\ StmtsOfKind("index") = (Cardinality(DOMAIN schemas) + 2)..Len(ddl_statements)
       /\ \A r \in 1..Len(relationships) :
            \A i \in StmtsOf("table", relationships[r].to_table) :
              \A j \in StmtsOf("table", relationships[r].from_table) : i < j
       /\ \A i \in StmtsOfKind("index") :
            LET t == ddl_statements[i].table
            IN /\ t \in DOMAIN schemas
               /\ ddl_statements[i].column \in HintsOf(t) \cap DOMAIN schemas[t].columns
               /\ \A j \in StmtsOf("table", t) : j < i
       /\ \A t \in DOMAIN schemas :
            \A c \in HintsOf(t) \cap DOMAIN schemas[t].columns :
              Cardinality({i \in StmtsOf("index", t) : ddl_statements[i].column = c}) = 1

\* C16 witness: statements were generated for two related tables, with an
\* index on a hinted column that is present and none on a hinted column that
\* is absent.
C16_Witness ==
  /\ pc = "generated"
  /\ Len(relationships) = 1
  /\ \E i \in StmtsOf("index", "standings") : ddl_statements[i].column = team_name
  /\ season \notin DOMAIN schemas["standings"].columns

\* C17: whatever the schemas and the detected relationships, the generated
\* statement sequence holds no foreign-key statement.
C17_NoForeignKeyStatement ==
  \A i \in 1..Len(ddl_statements) : ddl_statements[i].kind # "foreign_key"

\* C17 witness: statements were generated while a relationship was detected.
C17_Witness ==
  /\ pc = "generated"
  /\ relationships # <<>>
  /\ Len(ddl_statements) >= 3

\* C21: a column whose non-missing values are all integers is inferred as
\* Integer, not nullable without missing values; one more, empty, cell makes
\* it nullable and leaves the type as it was.
C21_IntegerColumnKeepsType ==
  (~IsDateAlias(series.name) /\ NonMissing(series.cells) # {}
     /\ \A i \in NonMissing(series.cells) : series.cells[i] = "int")
    => /\ (pc = "inferred" /\ ~HasMissing(series.cells))
            => col_info.type = "BIGINT" /\ ~col_info.nullable
       /\ pc = "reinferred"
            => /\ col_info.nullable
               /\ col_info.type = prev_info.type
               /\ col_info.type = "BIGINT"

\* C22: a text column of which at least 80% of the non-missing values parse
\* as numbers is typed numeric, the boundary of exactly 80% included: Float
\* when a parsed value has a fractional part, else Integer.
C22_EightyPercentRule ==
  (pc = "inferred" /\ DtypeOf(series.cells) = "object" /\ ~IsDateAlias(series.name)
     /\ NonMissing(series.cells) # {}
     /\ 10 * Cardinality(Numeric(series.cells)) >= 8 * Cardinality(NonMissing(series.cells)))
    => col_info.type = IF \E i \in Numeric(series.cells) : series.cells[i] = "frac"
                       THEN "DOUBLE PRECISION" ELSE "BIGINT"

\* C23: a column whose header is a date alias, in any case, is inferred as
\* Date whatever its values are.
C23_DateAliasFirst ==
  (pc \in {"inferred", "reinferred"} /\ IsDateAlias(series.name))
    => col_info.type = "DATE"

\* A file name of the season pattern YYYY-YY.csv.
SeasonFile(f) ==
  /\ f.ext = "csv"
  /\ Len(f.stem) = 7
  /\ f.stem[5] = "-"
  /\ \A i \in {1, 2, 3, 4, 6, 7} : f.stem[i] \in Digits

\* C24: a file of the standings directory is a source of the table exactly
\* when its name has the form YYYY-YY.csv; every other file is left out with
\* a logged warning and is neither read as data nor the cause of an error.
C24_OnlySeasonFilesContribute ==
  (files.table = "standings" /\ pc \in {"absent", "analysed", "combined"})
    => /\ \A i \in 1..Len(files.entries) :
            ~SeasonFile(files.entries[i]) => i \in warnings /\ i \notin Range(source_files)
       /\ pc \in {"analysed", "combined"}
            => \A i \in 1..Len(files.entries) :
                 SeasonFile(files.entries[i]) => i \in Range(source_files)
       /\ pc = "combined" => Range(df) = Range(source_files)

\* C26: an unreadable file among the files of a sharded table is never fatal:
\* the analysis does not raise, the table is analysed and loaded from the
\* readable files, and it is left out only when none of its files is readable.
C26_CorruptShardSkipped ==
  /\ pc # "raised"
  /\ LET readable == {i \in CsvFiles(files.table, files.entries) : ~files.entries[i].corrupt}
     IN /\ pc \in {"analysed", "combined"} => Range(source_files) = readable
        /\ pc = "absent" => readable = {}

\* C27: when the bulk transfer of a table starts, the shared connection is
\* not inside a transaction an earlier table left aborted.
C27_BulkStartsOutsideAbortedTxn ==
  pc = "copy" => db.txn # "aborted"

\* C28: the schema of every analysed table has one column for each header of
\* its sample, and the frame re-keyed for the load carries every header once,
\* under a name of its own.
C28_SanitizedNamesInjective ==
  \A t \in DOMAIN schemas :
    LET cols == schemas[t].columns
        names == CleanColumns(samples[t], cols)
    IN /\ Cardinality({c \in DOMAIN cols : cols[c].original_name # NoKey}) = Len(samples[t])
       /\ Len(names) = Len(samples[t])
       /\ \A i, j \in 1..Len(names) : names[i] = names[j] => i = j

\* C25: when a run has ended, every row of the injuries and of the odds table
\* is a row of the latest file of its directory.
C25_LatestSnapshotOnly ==
  (pc = "done" /\ obs.reported)
    => \A t \in Range(metadata) : \A k \in Keys :
         db.durable.rows[t][k] > 0 => k \in Range(input[t])

RECURSIVE PendingStakes(_)
\* The sum of bet_amount over the PENDING bets.
PendingStakes(bs) ==
  IF bs = <<>> THEN 0
  ELSE (IF bs[Len(bs)].status = "PENDING" THEN bs[Len(bs)].bet_amount ELSE 0)
         + PendingStakes(SubSeq(bs, 1, Len(bs) - 1))

\* C29: after any sequence of place_bet, update_bet and cancel_bet calls, made
\* one after the other, the user's credits plus the stakes of the PENDING bets
\* equal the balance at the start, and the credits are not negative.
C29_StakeConservation ==
  (requests = <<>> /\ ~ledger.settled /\ ~ledger.overlapped /\ bets # <<>>)
    => /\ credits + PendingStakes(bets) = ledger.total
       /\ credits >= 0

\* C30: a bet that has left PENDING keeps the status it then took, and the
\* user is credited at most once for a bet, however the cancel_bet and
\* settle_bet calls for it interleave.
C30_SettledOnce ==
  \A b \in 1..Len(bets) :
    /\ ledger.credited[b] <= 1
    /\ ledger.first[b] # "PENDING" => bets[b].status = ledger.first[b]

====
